---- MODULE Spec2Model ----
(***************************************************************************)
(* A model of the cheezious-rag service: the Rag orchestrator              *)
(* (src/src/rag/rag.py), the /rag router (src/src/rag/router.py) and the   *)
(* /add_document/ endpoint (src/src/__init__.py).                          *)
(*                                                                         *)
(* Two specifications:                                                     *)
(*   Spec      - HTTP requests served by independent workers that share    *)
(*               the external vector store and the local disk;             *)
(*   SpecChunk - the text splitter that Rag.store configures, applied to   *)
(*               one text, one emitted chunk per step.                     *)
(***************************************************************************)
EXTENDS Integers, Sequences, FiniteSets, TLC

(***************************************************************************)
(* Bounds of the model.                                                    *)
(***************************************************************************)
MaxReq == 2        \* requests in flight
MaxK == 2          \* largest top_k a query asks for
MaxWords == 4      \* words in a text given to the splitter in SpecChunk

(***************************************************************************)
(* Program constants.                                                      *)
(***************************************************************************)
chunk_size == 1000
chunk_overlap == 200

Min(a, b) == IF a < b THEN a ELSE b
Max(a, b) == IF a > b THEN a ELSE b

(***************************************************************************)
(* Texts.  A text is a sequence of word lengths; the words are joined by   *)
(* single spaces and every word is shorter than chunk_size.  No character  *)
(* run of the text repeats, so a stripped substring is identified by its   *)
(* character interval [lo, hi) in the text.                                *)
(***************************************************************************)
WordLens == {150, 450, 700}

RECURSIVE TextLen(_)
TextLen(words) ==
    IF words = <<>> THEN 0
    ELSE Head(words) + (IF Len(words) > 1 THEN 1 ELSE 0) + TextLen(Tail(words))

RECURSIVE SeqsUpTo(_, _)
SeqsUpTo(S, n) ==
    IF n = 0 THEN {<<>>}
    ELSE LET shorter == SeqsUpTo(S, n - 1)
         IN shorter \cup {Append(s, x) : s \in shorter, x \in S}

ChunkTexts == SeqsUpTo(WordLens, MaxWords) \ {<<>>}

(***************************************************************************)
(* RecursiveCharacterTextSplitter(chunk_size=1000, chunk_overlap=200,      *)
(* add_start_index=True) as Rag.store configures it.  The separators       *)
(* "\n\n" and "\n" do not occur in a text of words, so the splitter        *)
(* splits on " " and keeps the separator at the head of the following      *)
(* piece: the splits are w1, " w2", " w3", ...  Every split is shorter     *)
(* than chunk_size, so all of them go through one merge.                   *)
(* A split is [off, len, lead]: offset in the text, length, and the number *)
(* of leading whitespace characters.                                       *)
(***************************************************************************)
RECURSIVE split_text_with_regex(_, _)
split_text_with_regex(words, off) ==
    IF words = <<>> THEN <<>>
    ELSE LET lead == IF off = 0 THEN 0 ELSE 1
         IN <<[off |-> off, len |-> lead + Head(words), lead |-> lead]>>
            \o split_text_with_regex(Tail(words), off + lead + Head(words))

\* _join_docs: the pieces are contiguous, the joined text is stripped of
\* surrounding whitespace; an empty result is dropped.
join_docs(cur) ==
    IF cur = <<>> THEN <<>>
    ELSE LET lo == cur[1].off + cur[1].lead
             hi == cur[Len(cur)].off + cur[Len(cur)].len
         IN IF lo >= hi THEN <<>> ELSE <<[lo |-> lo, hi |-> hi]>>

\* A window trimmed to chunk_size instead of chunk_overlap: the loop of
\* keep_overlap with the wrong limit.
RECURSIVE keep_overlap_size(_, _, _)
keep_overlap_size(cur, total, len) ==
    IF total > chunk_size \/ (total + len > chunk_size /\ total > 0)
    THEN keep_overlap_size(Tail(cur), total - cur[1].len, len)
    ELSE [cur |-> cur, total |-> total]

\* _merge_splits, the while loop that drops pieces from the front of the
\* current window until at most chunk_overlap characters are carried over
\* and the next piece fits.
RECURSIVE keep_overlap(_, _, _)
keep_overlap(cur, total, len) ==
    IF total > chunk_overlap \/ (total + len > chunk_size /\ total > 0)
    THEN keep_overlap(Tail(cur), total - cur[1].len, len)
    ELSE [cur |-> cur, total |-> total]

\* _merge_splits, the for loop over the splits (the separator used to join
\* is "" because the separator is kept inside the pieces).
RECURSIVE merge_splits(_, _, _, _)
merge_splits(splits, cur, total, docs) ==
    IF splits = <<>> THEN docs \o join_docs(cur)
    ELSE LET d == Head(splits)
             flush == total + d.len > chunk_size /\ cur # <<>>
             kept == IF flush THEN keep_overlap(cur, total, d.len)
                     ELSE [cur |-> cur, total |-> total]
         IN merge_splits(Tail(splits), Append(kept.cur, d), kept.total + d.len,
                         IF flush THEN docs \o join_docs(cur) ELSE docs)

split_text(words) == merge_splits(split_text_with_regex(words, 0), <<>>, 0, <<>>)

\* text.find(chunk, start): the first occurrence at or after start, -1 if
\* there is none.
find(chunk, start) == IF chunk.lo >= start THEN chunk.lo ELSE -1

\* One iteration of the loop of create_documents over the chunks of a
\* document: the Document emitted for `chunk`, given the loop's index and
\* previous_chunk_len.  Of the metadata only start_index is kept.
emit_document(doc, chunk, index, previous_chunk_len) ==
    LET offset == index + previous_chunk_len - chunk_overlap
    IN [text |-> doc.text, lo |-> chunk.lo, hi |-> chunk.hi,
        start_index |-> find(chunk, Max(0, offset))]

RECURSIVE create_documents(_, _, _, _)
create_documents(doc, chunks, index, previous_chunk_len) ==
    IF chunks = <<>> THEN <<>>
    ELSE LET new_doc == emit_document(doc, Head(chunks), index, previous_chunk_len)
         IN <<new_doc>> \o create_documents(doc, Tail(chunks), new_doc.start_index,
                                            new_doc.hi - new_doc.lo)

\* split_documents: the chunks of every document, in order.
RECURSIVE split_documents(_)
split_documents(data) ==
    IF data = <<>> THEN <<>>
    ELSE create_documents(Head(data), split_text(Head(data).text), 0, 0)
         \o split_documents(Tail(data))

(***************************************************************************)
(* The documents of the service model.  Two texts: one that fits in one    *)
(* chunk and one that is split in two.                                     *)
(***************************************************************************)
ShortText == <<450>>
LongText == <<700, 450>>

\* An uploaded file's name: stem and extension; NoFile is an absent upload.
NoFile == [stem |-> "", ext |-> ""]
Filenames == {[stem |-> "a", ext |-> ".txt"],
              [stem |-> "b", ext |-> ".pdf"],
              [stem |-> "c", ext |-> ".docx"]}

\* What a loader yields for an upload or a URL: TextLoader and WebBaseLoader
\* yield one document, PyMuPDFLoader one per page (none for an empty PDF).
OneDocBodies == {<<LongText>>}
PdfBodies == {<<>>, <<ShortText, LongText>>}
Bodies == OneDocBodies \cup PdfBodies

Reqs == 1..MaxReq
TopKs == 0..MaxK

VARIABLES
    vector_store, \* the Pinecone index: the sequence of persisted chunks
    disk,         \* the temporary files that exist on the local disk
    pc,           \* pc[r]: where request r is in its handler
    inp,          \* inp[r]: the request (endpoint, file, url, upload, top_k)
    loc,          \* loc[r]: the handler's and Rag's local variables
    resp,         \* resp[r]: the HTTP response
    log,          \* log[r]: what happened while serving r (history)
    c_text,       \* SpecChunk: the text being split
    c_chunks,     \* SpecChunk: chunks of split_text not yet emitted
    c_index,      \* SpecChunk: create_documents' index
    c_prev,       \* SpecChunk: create_documents' previous_chunk_len
    c_out         \* SpecChunk: Documents emitted so far

cvars == <<c_text, c_chunks, c_index, c_prev, c_out>>
svars == <<vector_store, disk, pc, inp, loc, resp, log>>
vars == <<vector_store, disk, pc, inp, loc, resp, log,
          c_text, c_chunks, c_index, c_prev, c_out>>

NoInput == [ep |-> "none", file |-> NoFile, url |-> FALSE, body |-> <<>>, top_k |-> 0]
NoLocals == [documents |-> <<>>, success |-> FALSE, context |-> <<>>]
NoResponse == [status |-> 0, success |-> "none", msg |-> "none", leak |-> FALSE,
               sources |-> <<>>]
\* History of a request: loader calls, Rag.store calls and what store
\* returned, the outcome of split_documents and of add_documents, the
\* add_documents calls, whether the embedder or the vector store was
\* contacted, how many of the call's chunks were persisted, every k asked of
\* the vector store, the store's size at and the result of the retrieval
\* behind `sources`, the context given to the llm, the exception that reached
\* the handler and the orchestrator-level error.
NoLog == [loader |-> 0, store |-> 0, returned |-> "none", split |-> "none",
          add |-> "none", addCalls |-> 0, contacted |-> FALSE, persisted |-> 0,
          chunks |-> 0, ks |-> <<>>, sizeAt |-> 0, source_docs |-> <<>>,
          context |-> <<>>, staged |-> FALSE, raised |-> "none", err |-> "none"]

\* tempfile.NamedTemporaryFile gives every call a fresh name; ingest_document
\* names its file after the upload: f"temp_{file.filename}".
NamedTemporaryFile(r) == [dir |-> "tmp", name |-> ToString(r), ext |-> ""]
temp_file_path(file) == [dir |-> "cwd", name |-> file.stem, ext |-> file.ext]

\* loader.load(): the documents of the upload.
Load(body) == [i \in 1..Len(body) |-> [text |-> body[i]]]

\* A retriever that ignores top_k and keeps the signature's default.
search_kwargs_default(top_k) == 3
\* The retriever's search_kwargs: {"k": top_k}.
search_kwargs(top_k) == top_k

\* The vector store's nearest-neighbour search for a retriever with
\* search_kwargs k: the k best-ranked records, all of them when the store
\* holds fewer (the records rank in insertion order).
similarity_search(store, k) == SubSeq(store, 1, Min(k, Len(store)))

\* The list comprehension that builds `sources` from the retrieved documents.
sources_of(source_docs) ==
    [i \in 1..Len(source_docs) |->
        [content |-> [text |-> source_docs[i].text, lo |-> source_docs[i].lo,
                      hi |-> source_docs[i].hi],
         metadata |-> [start_index |-> source_docs[i].start_index]]]

Init ==
    /\ vector_store = <<>>
    /\ disk = {}
    /\ pc = [r \in Reqs |-> "idle"]
    /\ inp = [r \in Reqs |-> NoInput]
    /\ loc = [r \in Reqs |-> NoLocals]
    /\ resp = [r \in Reqs |-> NoResponse]
    /\ log = [r \in Reqs |-> NoLog]
    /\ c_text = <<>>
    /\ c_chunks = <<>>
    /\ c_index = 0
    /\ c_prev = 0
    /\ c_out = <<>>

\* The handler of r returns or raises: the response is sent and the
\* handler's locals are gone.
Respond(r, status, success, msg, leak, sources) ==
    /\ resp' = [resp EXCEPT ![r] = [status |-> status, success |-> success,
                                    msg |-> msg, leak |-> leak,
                                    sources |-> sources]]
    /\ loc' = [loc EXCEPT ![r] = NoLocals]
    /\ pc' = [pc EXCEPT ![r] = "done"]

\* Requests are numbered in the order they arrive.
Arrives(r) ==
    /\ pc[r] = "idle"
    /\ r > 1 => pc[r - 1] # "idle"

(***************************************************************************)
(* Rag.store                                                               *)
(***************************************************************************)
\* An except clause that reports success.
store_except_true == TRUE
\* The except clause of Rag.store: the error is printed, False is returned.
store_except == FALSE

\* The caller's code after `success = rag.store(documents)`.
\* add_document: if success: ... else: ... (both are plain returns).
\* ingest_document: os.remove(temp_file_path) comes next.
AfterStore(r, success) ==
    IF inp[r].ep = "add_document"
    THEN IF success
         THEN Respond(r, 200, "true", "Documents added to Pinecone vector store",
                      FALSE, <<>>)
         ELSE Respond(r, 200, "false", "Failed to store documents", FALSE, <<>>)
    ELSE /\ loc' = [loc EXCEPT ![r].success = success]
         /\ pc' = [pc EXCEPT ![r] = "in_remove"]
         /\ UNCHANGED resp

\* Rag.store(data): split_documents, then vector_store.add_documents(splits)
\* in one call.  add_documents embeds the chunks and upserts them in batches;
\* when it raises, any number of the chunks may already be persisted, and
\* store undoes nothing.
Store(r) ==
    /\ pc[r] = "store"
    /\ LET splits == split_documents(loc[r].documents)
       IN \/ \* the splitter raises on a document it cannot split (there is
             \* nothing that can raise when data is empty)
             /\ loc[r].documents # <<>>
             /\ log' = [log EXCEPT ![r].store = @ + 1, ![r].split = "fail",
                                   ![r].err = "store",
                                   ![r].returned = ToString(store_except)]
             /\ AfterStore(r, store_except)
             /\ UNCHANGED vector_store
          \/ \* add_documents returns
             /\ vector_store' = vector_store \o splits
             /\ log' = [log EXCEPT ![r].store = @ + 1, ![r].split = "ok",
                                   ![r].chunks = Len(splits),
                                   ![r].add = "ok", ![r].addCalls = @ + 1,
                                   ![r].contacted = TRUE,
                                   ![r].persisted = Len(splits),
                                   ![r].returned = "TRUE"]
             /\ AfterStore(r, TRUE)
          \/ \* add_documents raises
             \E n \in 0..Len(splits) :
                /\ vector_store' = vector_store \o SubSeq(splits, 1, n)
                /\ log' = [log EXCEPT ![r].store = @ + 1, ![r].split = "ok",
                                      ![r].chunks = Len(splits),
                                      ![r].add = "fail", ![r].addCalls = @ + 1,
                                      ![r].contacted = TRUE, ![r].persisted = n,
                                      ![r].err = "store",
                                      ![r].returned = ToString(store_except)]
                /\ AfterStore(r, store_except)
    /\ UNCHANGED <<disk, inp, cvars>>

(***************************************************************************)
(* add_document (src/src/__init__.py); it uses the module's one Rag.       *)
(***************************************************************************)
\* POST /add_document/ with an optional file and an optional url.
\* if file: the upload is staged in a temporary file and the extension
\* decides the loader (any other extension is refused) / elif url / else.
AddDocumentEntry(r) ==
    /\ Arrives(r)
    /\ \E file \in Filenames \cup {NoFile}, url \in BOOLEAN, body \in Bodies :
          /\ \/ file # NoFile /\ file.ext = ".pdf" /\ body \in PdfBodies
             \/ (file = NoFile \/ file.ext # ".pdf") /\ body \in OneDocBodies
          /\ inp' = [inp EXCEPT ![r] = [ep |-> "add_document", file |-> file,
                                        url |-> url, body |-> body, top_k |-> 0]]
          /\ \/ /\ file # NoFile
                /\ file.ext \in {".pdf", ".txt"}
                /\ disk' = disk \cup {NamedTemporaryFile(r)}
                /\ log' = [log EXCEPT ![r].staged = TRUE]
                /\ pc' = [pc EXCEPT ![r] = "ad_load"]
                /\ UNCHANGED <<resp, loc>>
             \/ /\ file # NoFile
                /\ file.ext \notin {".pdf", ".txt"}
                /\ disk' = disk \cup {NamedTemporaryFile(r)}
                /\ log' = [log EXCEPT ![r].staged = TRUE]
                /\ Respond(r, 200, "false", "Unsupported file format", FALSE, <<>>)
             \/ /\ file = NoFile
                /\ url
                /\ pc' = [pc EXCEPT ![r] = "ad_load"]
                /\ UNCHANGED <<disk, loc, resp, log>>
             \/ /\ file = NoFile
                /\ ~url
                /\ Respond(r, 200, "false", "No valid input provided", FALSE, <<>>)
                /\ UNCHANGED <<disk, log>>
    /\ UNCHANGED <<vector_store, cvars>>

\* documents = loader.load(), then the call of rag.store.
AddDocumentLoad(r) ==
    /\ pc[r] = "ad_load"
    /\ \/ /\ loc' = [loc EXCEPT ![r].documents = Load(inp[r].body)]
          /\ log' = [log EXCEPT ![r].loader = @ + 1]
          /\ pc' = [pc EXCEPT ![r] = "store"]
          /\ UNCHANGED resp
       \/ \* the loader raises: except Exception returns str(e)
          /\ log' = [log EXCEPT ![r].loader = @ + 1, ![r].raised = "loader"]
          /\ Respond(r, 200, "false", "str(e)", TRUE, <<>>)
    /\ UNCHANGED <<vector_store, disk, inp, cvars>>

(***************************************************************************)
(* The /rag router (src/src/rag/router.py); every request builds its own   *)
(* Rag through get_rag_service.                                            *)
(***************************************************************************)
\* get_rag_service fails: Rag() raised, HTTPException(500) with a fixed detail.
GetRagServiceFails(r) ==
    /\ log' = [log EXCEPT ![r].err = "init"]
    /\ Respond(r, 500, "none", "Failed to initialize RAG service", FALSE, <<>>)

\* POST /rag/ingest.  file is required (File(...)), rag is
\* Depends(get_rag_service).
IngestEntry(r) ==
    /\ Arrives(r)
    /\ \E file \in Filenames \cup {NoFile}, body \in OneDocBodies :
          /\ inp' = [inp EXCEPT ![r] = [ep |-> "ingest", file |-> file,
                                        url |-> FALSE, body |-> body, top_k |-> 0]]
          /\ \/ /\ file = NoFile
                /\ Respond(r, 422, "none", "field required", FALSE, <<>>)
                /\ UNCHANGED log
             \/ /\ file # NoFile
                /\ GetRagServiceFails(r)
             \/ /\ file # NoFile
                /\ pc' = [pc EXCEPT ![r] = "in_read"]
                /\ UNCHANGED <<resp, loc, log>>
    /\ UNCHANGED <<vector_store, disk, cvars>>

\* The upload is read and decoded, then written to temp_<filename>.
IngestStage(r) ==
    /\ pc[r] = "in_read"
    /\ \/ /\ disk' = disk \cup {temp_file_path(inp[r].file)}
          /\ log' = [log EXCEPT ![r].staged = TRUE]
          /\ pc' = [pc EXCEPT ![r] = "in_load"]
          /\ UNCHANGED <<resp, loc>>
       \/ \* content.decode("utf-8") raises
          /\ log' = [log EXCEPT ![r].raised = "decode"]
          /\ Respond(r, 500, "none", "Failed to ingest document: str(e)", TRUE, <<>>)
          /\ UNCHANGED disk
    /\ UNCHANGED <<vector_store, inp, cvars>>

\* TextLoader(temp_file_path).load(), the source metadata, the call of store.
IngestLoad(r) ==
    /\ pc[r] = "in_load"
    /\ \/ /\ temp_file_path(inp[r].file) \in disk
          /\ loc' = [loc EXCEPT ![r].documents = Load(inp[r].body)]
          /\ log' = [log EXCEPT ![r].loader = @ + 1]
          /\ pc' = [pc EXCEPT ![r] = "store"]
          /\ UNCHANGED resp
       \/ \* the loader raises (the file was removed by another request, or
          \* cannot be read)
          /\ log' = [log EXCEPT ![r].loader = @ + 1, ![r].raised = "loader"]
          /\ Respond(r, 500, "none", "Failed to ingest document: str(e)", TRUE, <<>>)
    /\ UNCHANGED <<vector_store, disk, inp, cvars>>

\* os.remove(temp_file_path), FileNotFoundError when the file is gone; then
\* if success: return ... else: raise HTTPException(500), which the handler's
\* own except Exception catches and wraps again.
IngestRemove(r) ==
    /\ pc[r] = "in_remove"
    /\ \/ /\ temp_file_path(inp[r].file) \in disk
          /\ disk' = disk \ {temp_file_path(inp[r].file)}
          /\ IF loc[r].success
             THEN Respond(r, 200, "true", "ingested successfully", FALSE, <<>>)
             ELSE Respond(r, 500, "none",
                          "Failed to ingest document: Failed to ingest document",
                          FALSE, <<>>)
          /\ UNCHANGED log
       \/ /\ temp_file_path(inp[r].file) \notin disk
          /\ log' = [log EXCEPT ![r].raised = "remove"]
          /\ Respond(r, 500, "none", "Failed to ingest document: str(e)", TRUE, <<>>)
          /\ UNCHANGED disk
    /\ UNCHANGED <<vector_store, inp, cvars>>

\* rag.query raised: the handler answers HTTPException(500) with a fixed detail.
QueryFails(r) ==
    /\ log' = [log EXCEPT ![r].err = "query", ![r].raised = "query"]
    /\ Respond(r, 500, "none", "Failed to process query", FALSE, <<>>)

\* POST /rag/query with a query and a top_k; rag is Depends(get_rag_service).
QueryEntry(r) ==
    /\ Arrives(r)
    /\ \E k \in TopKs :
          inp' = [inp EXCEPT ![r] = [ep |-> "query", file |-> NoFile,
                                     url |-> FALSE, body |-> <<>>, top_k |-> k]]
    /\ \/ GetRagServiceFails(r)
       \/ /\ pc' = [pc EXCEPT ![r] = "q_invoke"]
          /\ UNCHANGED <<resp, loc, log>>
    /\ UNCHANGED <<vector_store, disk, cvars>>

\* rag_chain.invoke(query_text): the retriever fetches the context, the
\* prompt is filled with it, the llm answers.
QueryInvoke(r) ==
    /\ pc[r] = "q_invoke"
    /\ \/ LET context == similarity_search(vector_store, search_kwargs(inp[r].top_k))
          IN /\ loc' = [loc EXCEPT ![r].context = context]
             /\ log' = [log EXCEPT ![r].ks = Append(@, search_kwargs(inp[r].top_k)),
                                   ![r].contacted = TRUE,
                                   ![r].context = context]
             /\ pc' = [pc EXCEPT ![r] = "q_sources"]
             /\ UNCHANGED resp
       \/ \* the retriever or the llm raises
          QueryFails(r)
    /\ UNCHANGED <<vector_store, disk, inp, cvars>>

\* retriever.get_relevant_documents(query_text), the sources and the return.
QuerySources(r) ==
    /\ pc[r] = "q_sources"
    /\ \/ LET source_docs == similarity_search(vector_store, search_kwargs(inp[r].top_k))
          IN /\ log' = [log EXCEPT ![r].ks = Append(@, search_kwargs(inp[r].top_k)),
                                   ![r].sizeAt = Len(vector_store),
                                   ![r].source_docs = source_docs]
             /\ Respond(r, 200, "none", "result", FALSE, sources_of(source_docs))
       \/ QueryFails(r)
    /\ UNCHANGED <<vector_store, disk, inp, cvars>>

Next ==
    \E r \in Reqs :
        \/ AddDocumentEntry(r)
        \/ AddDocumentLoad(r)
        \/ IngestEntry(r)
        \/ IngestStage(r)
        \/ IngestLoad(r)
        \/ IngestRemove(r)
        \/ QueryEntry(r)
        \/ QueryInvoke(r)
        \/ QuerySources(r)
        \/ Store(r)

Spec == Init /\ [][Next]_vars

(***************************************************************************)
(* The splitter on its own: split_documents over one text, one emitted     *)
(* Document per step of create_documents' loop.  The long texts of         *)
(* ChunkTexts are the ones that need more than one chunk.                  *)
(***************************************************************************)
InitChunk ==
    /\ vector_store = <<>>
    /\ disk = {}
    /\ pc = [r \in Reqs |-> "idle"]
    /\ inp = [r \in Reqs |-> NoInput]
    /\ loc = [r \in Reqs |-> NoLocals]
    /\ resp = [r \in Reqs |-> NoResponse]
    /\ log = [r \in Reqs |-> NoLog]
    /\ c_text \in ChunkTexts
    /\ c_chunks = split_text(c_text)
    /\ c_index = 0
    /\ c_prev = 0
    /\ c_out = <<>>

EmitChunk ==
    /\ c_chunks # <<>>
    /\ LET doc == emit_document([text |-> c_text],
                                Head(c_chunks), c_index, c_prev)
       IN /\ c_out' = Append(c_out, doc)
          /\ c_index' = doc.start_index
          /\ c_prev' = doc.hi - doc.lo
    /\ c_chunks' = Tail(c_chunks)
    /\ UNCHANGED <<c_text, svars>>

NextChunk == EmitChunk

SpecChunk == InitChunk /\ [][NextChunk]_vars

ChunkDone == c_chunks = <<>> /\ c_text # <<>>
ChunkLen(d) == d.hi - d.lo

Finished(r) == pc[r] = "done"
Unsupported(file) == file # NoFile /\ file.ext \notin {".pdf", ".txt"}
IsIngest(r) == inp[r].ep \in {"add_document", "ingest"}
Rejected(r) == resp[r].success = "false" \/ resp[r].status >= 400
QueryAnswered(r) == inp[r].ep = "query" /\ Finished(r) /\ resp[r].status = 200

\* C1: Rag.store never raises past its boundary; it returns False when
\* chunking or the vector store's add call failed, and True only when both
\* completed.
C1_StoreReturnsOutcome ==
    \A r \in Reqs :
        /\ log[r].raised # "store"
        /\ log[r].store > 0 =>
              /\ log[r].returned \in {"TRUE", "FALSE"}
              /\ log[r].returned = "TRUE"
                     <=> (log[r].split = "ok" /\ log[r].add = "ok")

\* A store call whose add call failed has returned False to its handler, and
\* the handler has answered.
C1_Witness ==
    \E r \in Reqs :
        /\ Finished(r)
        /\ log[r].store = 1
        /\ log[r].split = "ok"
        /\ log[r].add = "fail"
        /\ log[r].returned = "FALSE"

\* C2: Rag.store called with an empty document list returns True and does
\* not call the vector store's add operation.
C2_EmptyStoreSkipsAdd ==
    \A r \in Reqs :
        (log[r].store > 0 /\ inp[r].body = <<>>) =>
            /\ log[r].returned = "TRUE"
            /\ log[r].addCalls = 0

\* C3: on every ingest endpoint an upload with an unsupported extension is
\* rejected before any loader is invoked, and neither the embedder nor the
\* vector store is contacted during the request.
C3_UnsupportedRejectedFirst ==
    \A r \in Reqs :
        (IsIngest(r) /\ Unsupported(inp[r].file)) =>
            /\ log[r].loader = 0
            /\ ~log[r].contacted
            /\ Finished(r) => Rejected(r)

\* C4: ingest requires exactly one of {file, url}: a request with neither and
\* a request with both is rejected as a validation failure, and Rag.store is
\* not called for it.
C4_ExactlyOneOfFileAndUrl ==
    \A r \in Reqs :
        (IsIngest(r) /\ ((inp[r].file = NoFile) <=> ~inp[r].url)) =>
            /\ log[r].store = 0
            /\ Finished(r) => Rejected(r)

\* C5: Rag.query(text, top_k = k) asks the vector store for exactly k
\* neighbours, and `sources` has exactly min(k, records held by the store)
\* entries, in the order the store returned them.
C5_TopKSources ==
    \A r \in Reqs :
        QueryAnswered(r) =>
            /\ \A i \in 1..Len(log[r].ks) : log[r].ks[i] = inp[r].top_k
            /\ Len(resp[r].sources) = Min(inp[r].top_k, log[r].sizeAt)
            /\ Len(resp[r].sources) = Len(log[r].source_docs)
            /\ \A i \in 1..Len(resp[r].sources) :
                   /\ resp[r].sources[i].content.text = log[r].source_docs[i].text
                   /\ resp[r].sources[i].content.lo = log[r].source_docs[i].lo
                   /\ resp[r].sources[i].content.hi = log[r].source_docs[i].hi
                   /\ resp[r].sources[i].metadata.start_index
                          = log[r].source_docs[i].start_index

\* A query answered with two sources: one with top_k = 2 over a store that
\* holds more than two records.
C5_Witness ==
    \E r \in Reqs :
        /\ QueryAnswered(r)
        /\ inp[r].top_k = 2
        /\ log[r].sizeAt > 2
        /\ Len(resp[r].sources) = 2

\* C6: every temporary file created to stage an upload is deleted on all
\* exit paths of the ingest request: once the requests have completed no
\* staged file remains.
C6_NoStagedFileRemains ==
    (\A r \in Reqs : pc[r] \in {"idle", "done"}) => disk = {}

\* C7: every orchestrator-level error that reaches the HTTP layer (Rag
\* construction failure, store returning False, query raising) is answered
\* with a generic 500-class response that carries no exception text.
C7_GenericServerError ==
    \A r \in Reqs :
        (Finished(r) /\ log[r].err # "none") =>
            /\ resp[r].status \in 500..599
            /\ ~resp[r].leak

\* C9: store is all-or-nothing per call: either every chunk of every input
\* document is added and store returns True, or store returns False and the
\* vector store holds none of the call's chunks.
C9_StoreAllOrNothing ==
    \A r \in Reqs :
        log[r].store > 0 =>
            \/ log[r].returned = "TRUE" /\ log[r].persisted = log[r].chunks
            \/ log[r].returned = "FALSE" /\ log[r].persisted = 0

\* C10: the `sources` returned by Rag.query are exactly the chunks that were
\* retrieved and given to the answer generator as context, under every
\* interleaving with concurrent store calls.
C10_SourcesAreTheContext ==
    \A r \in Reqs :
        QueryAnswered(r) => resp[r].sources = sources_of(log[r].context)
====
